---------------------------- MODULE Spec2Model ----------------------------
(***************************************************************************)
(* A model of date_changer_gui.py: the Run handler (App.on_run), the       *)
(* background job (App.run_job), the log queue (App.ui_log /               *)
(* App.drain_log_queue) and the pure helpers they use (normalize_exif,     *)
(* App.parse_extensions).                                                  *)
(*                                                                         *)
(* Text is modelled as a sequence of one-character strings, so that        *)
(* parsing, formatting, prefix matching and substitution are computed      *)
(* character by character as the code (and the patterns it builds) do.     *)
(***************************************************************************)
EXTENDS Integers, Sequences, FiniteSets, TLC

(***************************************************************************)
(* Bounds of the model.                                                    *)
(***************************************************************************)
\* jobs that on_run may start in one behaviour (one more in SpecRuns)
MaxRuns == 1
\* output lines the child process may print
MaxOut == 2

(***************************************************************************)
(* Text helpers.                                                           *)
(***************************************************************************)
Range(s) == {s[i] : i \in 1..Len(s)}

Digits == {"0", "1", "2", "3", "4", "5", "6", "7", "8", "9"}

DigitChars == <<"0", "1", "2", "3", "4", "5", "6", "7", "8", "9">>

\* int() of one decimal digit
DigitVal(c) == (CHOOSE i \in 1..10 : DigitChars[i] = c) - 1

\* Python's None, as a text no character sequence equals
None == <<"None">>

\* Python truthiness of an optional text: None and "" are falsy
Truthy(x) == x # None /\ x # <<>>

\* str.strip() for the blanks the model's alphabet has
RECURSIVE LStrip(_)
LStrip(s) == IF s # <<>> /\ Head(s) = " " THEN LStrip(Tail(s)) ELSE s

RECURSIVE RStrip(_)
RStrip(s) ==
    IF s # <<>> /\ s[Len(s)] = " " THEN RStrip(SubSeq(s, 1, Len(s) - 1)) ELSE s

Strip(s) == LStrip(RStrip(s))

\* str.lstrip(".")
RECURSIVE LStripDot(_)
LStripDot(s) == IF s # <<>> /\ Head(s) = "." THEN LStripDot(Tail(s)) ELSE s

\* str.lower() for the letters the model's alphabet has
LowerChar(c) ==
    CASE c = "J" -> "j" [] c = "P" -> "p" [] c = "G" -> "g"
      [] c = "H" -> "h" [] c = "E" -> "e" [] c = "I" -> "i" [] c = "C" -> "c"
      [] OTHER -> c

Lower(s) == [i \in 1..Len(s) |-> LowerChar(s[i])]

\* str.split(","): the pieces between the commas, empty pieces kept
RECURSIVE SplitComma(_, _)
SplitComma(s, cur) ==
    IF s = <<>> THEN <<cur>>
    ELSE IF Head(s) = "," THEN <<cur>> \o SplitComma(Tail(s), <<>>)
    ELSE SplitComma(Tail(s), Append(cur, Head(s)))

\* [p for p in parts if p.strip()]
RECURSIVE DropBlank(_)
DropBlank(parts) ==
    IF parts = <<>> THEN <<>>
    ELSE (IF Strip(Head(parts)) # <<>> THEN <<Head(parts)>> ELSE <<>>)
             \o DropBlank(Tail(parts))

\* [p for p in parts if p]
RECURSIVE DropEmpty(_)
DropEmpty(parts) ==
    IF parts = <<>> THEN <<>>
    ELSE (IF Head(parts) # <<>> THEN <<Head(parts)>> ELSE <<>>)
             \o DropEmpty(Tail(parts))

(***************************************************************************)
(* datetime.datetime.strptime(s, "%Y<sep>%m<sep>%d"), as CPython's         *)
(* _strptime does it: the format becomes the regular expression            *)
(*   (\d\d\d\d) sep (1[0-2]|0[1-9]|[1-9]) sep                              *)
(*                  (3[0-1]|[1-2]\d|0[1-9]|[1-9]| [1-9])                   *)
(* matched at the start of s; text left after the match, a year of 0 or a  *)
(* day the month does not have raise ValueError.                           *)
(***************************************************************************)
NonZero == Digits \ {"0"}

\* length matched by %m at position i: 1[0-2] | 0[1-9] | [1-9], first hit
MonthLen(s, i) ==
    IF Len(s) >= i + 1 /\ s[i] = "1" /\ s[i + 1] \in {"0", "1", "2"} THEN 2
    ELSE IF Len(s) >= i + 1 /\ s[i] = "0" /\ s[i + 1] \in NonZero THEN 2
    ELSE IF Len(s) >= i /\ s[i] \in NonZero THEN 1
    ELSE 0

\* length matched by %d at position i:
\* 3[0-1] | [1-2]\d | 0[1-9] | [1-9] | " "[1-9], first hit
DayLen(s, i) ==
    IF Len(s) >= i + 1 /\ s[i] = "3" /\ s[i + 1] \in {"0", "1"} THEN 2
    ELSE IF Len(s) >= i + 1 /\ s[i] \in {"1", "2"} /\ s[i + 1] \in Digits THEN 2
    ELSE IF Len(s) >= i + 1 /\ s[i] = "0" /\ s[i + 1] \in NonZero THEN 2
    ELSE IF Len(s) >= i /\ s[i] \in NonZero THEN 1
    ELSE IF Len(s) >= i + 1 /\ s[i] = " " /\ s[i + 1] \in NonZero THEN 2
    ELSE 0

\* int() of a matched group: leading blank ignored
RECURSIVE IntOf(_, _)
IntOf(s, acc) ==
    IF s = <<>> THEN acc
    ELSE IF Head(s) = " " THEN IntOf(Tail(s), acc)
    ELSE IntOf(Tail(s), 10 * acc + DigitVal(Head(s)))

IsLeap(y) == (y % 4 = 0) /\ ((y % 100 # 0) \/ (y % 400 = 0))

DaysInMonth(y, m) ==
    IF m = 2 THEN (IF IsLeap(y) THEN 29 ELSE 28)
    ELSE IF m \in {4, 6, 9, 11} THEN 30 ELSE 31

NoDate == [ok |-> FALSE, y |-> 0, m |-> 0, d |-> 0]

Strptime(s, sep) ==
    IF ~(Len(s) >= 5 /\ (\A i \in 1..4 : s[i] \in Digits) /\ s[5] = sep)
    THEN NoDate
    ELSE
      LET ml == MonthLen(s, 6) IN
      IF ml = 0 \/ ~(Len(s) >= 6 + ml /\ s[6 + ml] = sep) THEN NoDate
      ELSE
        LET p  == 7 + ml
            dl == DayLen(s, p)
        IN
        IF dl = 0 \/ p + dl - 1 # Len(s) THEN NoDate
        ELSE
          LET y == IntOf(SubSeq(s, 1, 4), 0)
              m == IntOf(SubSeq(s, 6, 5 + ml), 0)
              d == IntOf(SubSeq(s, p, p + dl - 1), 0)
          IN
          IF y >= 1 /\ d <= DaysInMonth(y, m)
          THEN [ok |-> TRUE, y |-> y, m |-> m, d |-> d]
          ELSE NoDate

\* n in decimal, zero-padded to w digits
RECURSIVE Pad(_, _)
Pad(n, w) == IF w = 0 THEN <<>> ELSE Pad(n \div 10, w - 1) \o <<DigitChars[(n % 10) + 1]>>

\* dt.strftime("%Y:%m:%d")
Strftime(dt) == Pad(dt.y, 4) \o <<":">> \o Pad(dt.m, 2) \o <<":">> \o Pad(dt.d, 2)

\* normalize_exif: a text with a colon is checked against %Y:%m:%d and
\* returned as it is; any other text is parsed as %Y-%m-%d and re-formatted
normalize_exif(s) ==
    IF ":" \in Range(s)
    THEN (IF Strptime(s, ":").ok THEN s ELSE None)
    ELSE (IF Strptime(s, "-").ok THEN Strftime(Strptime(s, "-")) ELSE None)

\* None where a list of texts is expected
NoneList == <<None>>

\* App.parse_extensions on the text of the extensions entry;
\* NoneList means all files
parse_extensions(exts_text) ==
    LET raw   == Strip(exts_text)
        kept  == DropBlank(SplitComma(raw, <<>>))
        parts == [i \in 1..Len(kept) |-> LStripDot(Lower(Strip(kept[i])))]
    IN IF raw = <<>> \/ raw = <<"*">> THEN NoneList
       ELSE DropEmpty(parts)

(***************************************************************************)
(* Texts the entries of the form may hold.                                 *)
(***************************************************************************)
D_2025_10_25   == <<"2", "0", "2", "5", ":", "1", "0", ":", "2", "5">>
D_2025_10_25d  == <<"2", "0", "2", "5", "-", "1", "0", "-", "2", "5">>
D_2025_11_01   == <<"2", "0", "2", "5", ":", "1", "1", ":", "0", "1">>
D_2025_13_40   == <<"2", "0", "2", "5", ":", "1", "3", ":", "4", "0">>
D_2025_1_5     == <<"2", "0", "2", "5", ":", "1", ":", "5">>
D_mixed        == <<"2", "0", "2", "5", ":", "1", "0", "-", "2", "5">>

X_all          == <<"*">>
X_jpg_heic     == <<"j", "p", "g", ",", " ", ".", "H", "E", "I", "C">>
X_dot          == <<".">>
X_jpg_jpeg_heic ==
    <<"j", "p", "g", ",", "j", "p", "e", "g", ",", "h", "e", "i", "c">>

Dir_photos     == <<"/", "p">>
Dir_missing    == <<"/", "x">>

\* os.path.isdir: the folders that exist
isdir(d) == d = Dir_photos

(***************************************************************************)
(* State.                                                                  *)
(***************************************************************************)
VARIABLES
    dir_var,        \* App.dir_var: text of the Source Folder entry
    old_var,        \* App.old_var: text of the Match Date entry
    new_var,        \* App.new_var: text of the Target Date entry
    dry_run,        \* App.dry_run
    match_mode,     \* App.match_mode: "exif" or "modified"
    set_created,    \* App.set_created
    set_modified,   \* App.set_modified
    exts_var,       \* App.exts_var: text of the Extensions entry
    msgbox,         \* title of the error dialog the last on_run showed, "" if none
    txt,            \* App.txt: the visible log, a sequence of lines
    queue,          \* App.queue: lines put and not yet taken
    ui,             \* the UI thread: "idle", or "drain" inside drain_log_queue
    jobs,           \* the threads on_run started, in order, each running run_job
    put_log,        \* history: every line put on the queue, in order
    shown,          \* history: every line inserted into txt, in order
    folder,         \* the filesystem dates of the files under the source folder
    overlapped      \* history: some Run started a job while another was in flight

form == <<dir_var, old_var, new_var, dry_run, match_mode, set_created,
          set_modified, exts_var>>

vars == <<dir_var, old_var, new_var, dry_run, match_mode, set_created,
          set_modified, exts_var, msgbox, txt, queue, ui, jobs, put_log, shown,
          folder, overlapped>>

\* a log line: the thread (run) it belongs to, what it says, and for a line
\* of tool output its number
Line(j, kind, n) == [job |-> j, kind |-> kind, n |-> n]

\* the eight lines on_run logs before it starts the thread
Header(j) ==
    << Line(j, "Folder:", 0), Line(j, "Match by:", 0), Line(j, "Match Date:", 0),
       Line(j, "Extensions:", 0), Line(j, "Set Date Modified to Target:", 0),
       Line(j, "Also set Date Created = Modified:", 0), Line(j, "Dry run:", 0),
       Line(j, "----", 0) >>

(***************************************************************************)
(* The exiftool command line: a sequence of arguments.  An argument is     *)
(* its text with the values the code formats into it kept apart: k is the  *)
(* literal text (the f-string with {x} and {y} for the holes), x and y     *)
(* the values.                                                             *)
(***************************************************************************)
Arg(k, x, y) == [k |-> k, x |-> x, y |-> y]

Lit(k) == Arg(k, <<>>, <<>>)

\* base += ["-ext", e] for every e
RECURSIVE ExtArgs(_)
ExtArgs(exts) ==
    IF exts = <<>> THEN <<>>
    ELSE <<Lit("-ext"), Arg("{x}", Head(exts), <<>>)>> \o ExtArgs(Tail(exts))

\* `if exts:` is false for None and for the empty list
ExtsTruthy(exts) == exts # NoneList /\ exts # <<>>

\* BuildBase with the overwrite flag appended whatever dryRun is
BuildBase_alwaysOverwrite(exts, dryRun) ==
    <<Lit("exiftool"), Lit("-fast2"), Lit("-r")>>
        \o (IF ExtsTruthy(exts) THEN ExtArgs(exts) ELSE <<>>)
        \o <<Lit("-overwrite_original")>>

\* run_job, lines 450-456
BuildBase(exts, dryRun) ==
    <<Lit("exiftool"), Lit("-fast2"), Lit("-r")>>
        \o (IF ExtsTruthy(exts) THEN ExtArgs(exts) ELSE <<>>)
        \o (IF ~dryRun THEN <<Lit("-overwrite_original")>> ELSE <<>>)

\* run_job, lines 458-462
BuildFilter(mode, old_norm) ==
    IF mode = "exif"
    THEN Arg("$DateTimeOriginal=~/^{x}/ or $CreateDate=~/^{x}/", old_norm, <<>>)
    ELSE Arg("$FileModifyDate=~/^{x}/", old_norm, <<>>)

\* the texts of the assignments of lines 468, 470 and 472
RewriteTexts ==
    { "-FileModifyDate<${DateTimeOriginal;$_=~s/^{x}/{y}/}",
      "-FileModifyDate<${FileModifyDate;$_=~s/^{x}/{y}/}" }

CopyText == "-FileCreateDate<FileModifyDate"

\* the argument assigns a field
IsAssignArg(arg) == arg.k \in RewriteTexts \cup {CopyText}

\* BuildAssigns with the copy to Created put before the rewrite of Modified
BuildAssigns_copyFirst(mode, old_norm, new_norm, setModified, setCreated) ==
    (IF setCreated THEN <<Lit("-FileCreateDate<FileModifyDate")>> ELSE <<>>)
    \o (IF setModified /\ Truthy(new_norm)
        THEN (IF mode = "exif"
              THEN <<Arg("-FileModifyDate<${DateTimeOriginal;$_=~s/^{x}/{y}/}",
                         old_norm, new_norm)>>
              ELSE <<Arg("-FileModifyDate<${FileModifyDate;$_=~s/^{x}/{y}/}",
                         old_norm, new_norm)>>)
        ELSE <<>>)

\* run_job, lines 464-472
BuildAssigns(mode, old_norm, new_norm, setModified, setCreated) ==
    (IF setModified /\ Truthy(new_norm)
     THEN (IF mode = "exif"
           THEN <<Arg("-FileModifyDate<${DateTimeOriginal;$_=~s/^{x}/{y}/}",
                      old_norm, new_norm)>>
           ELSE <<Arg("-FileModifyDate<${FileModifyDate;$_=~s/^{x}/{y}/}",
                      old_norm, new_norm)>>)
     ELSE <<>>)
    \o (IF setCreated THEN <<Lit("-FileCreateDate<FileModifyDate")>> ELSE <<>>)

\* run_job, lines 476-482
BuildProjection(mode, new_norm, setModified) ==
    IF setModified /\ Truthy(new_norm)
    THEN (IF mode = "exif"
          THEN Arg("$FileName | $DateTimeOriginal -> {x} ${DateTimeOriginal;$_=~s/^\\d{4}:\\d{2}:\\d{2} //}",
                   new_norm, <<>>)
          ELSE Arg("$FileName | $FileModifyDate -> {x} ${FileModifyDate;$_=~s/^\\d{4}:\\d{2}:\\d{2} //}",
                   new_norm, <<>>))
    ELSE Lit("$FileName | Created will become Modified | $FileCreateDate -> $FileModifyDate")

\* BuildCmd with the assignments passed in the preview too
BuildCmd_assignsInPreview(a) ==
    BuildBase(a.exts, a.dry_run)
        \o <<Lit("-if"), BuildFilter(a.match_mode, a.old_norm)>>
        \o BuildAssigns(a.match_mode, a.old_norm, a.new_norm,
                        a.set_modified, a.set_created)
        \o (IF a.dry_run
            THEN <<Lit("-p"),
                   BuildProjection(a.match_mode, a.new_norm, a.set_modified)>>
            ELSE <<>>)
        \o <<Arg("{x}", a.source_dir, <<>>)>>

\* run_job, lines 483 and 492: the whole command
BuildCmd(a) ==
    IF a.dry_run
    THEN BuildBase(a.exts, a.dry_run)
            \o <<Lit("-if"), BuildFilter(a.match_mode, a.old_norm), Lit("-p"),
                 BuildProjection(a.match_mode, a.new_norm, a.set_modified),
                 Arg("{x}", a.source_dir, <<>>)>>
    ELSE BuildBase(a.exts, a.dry_run)
            \o <<Lit("-if"), BuildFilter(a.match_mode, a.old_norm)>>
            \o BuildAssigns(a.match_mode, a.old_norm, a.new_norm,
                            a.set_modified, a.set_created)
            \o <<Arg("{x}", a.source_dir, <<>>)>>

(***************************************************************************)
(* What the expressions handed to exiftool mean for one file.  A file is   *)
(* its three timestamps, each "YYYY:MM:DD HH:MM:SS" or None when the file  *)
(* has no such tag.                                                        *)
(***************************************************************************)
D_2025_09_01 == <<"2", "0", "2", "5", ":", "0", "9", ":", "0", "1">>
T_09_30_00   == <<"0", "9", ":", "3", "0", ":", "0", "0">>
T_18_00_00   == <<"1", "8", ":", "0", "0", ":", "0", "0">>

Stamp(date, time) == date \o <<" ">> \o time

File(dto, cd, fmd) ==
    [DateTimeOriginal |-> dto, CreateDate |-> cd, FileModifyDate |-> fmd]

Files ==
    { File(Stamp(D_2025_10_25, T_09_30_00), Stamp(D_2025_10_25, T_09_30_00),
           Stamp(D_2025_10_25, T_18_00_00)),
      File(Stamp(D_2025_09_01, T_09_30_00), Stamp(D_2025_10_25, T_09_30_00),
           Stamp(D_2025_10_25, T_18_00_00)),
      File(None, Stamp(D_2025_10_25, T_09_30_00), Stamp(D_2025_09_01, T_18_00_00)),
      File(Stamp(D_2025_09_01, T_09_30_00), Stamp(D_2025_09_01, T_09_30_00),
           Stamp(D_2025_09_01, T_18_00_00)) }

\* v =~ /^pre/ for a pre of digits, colons and blanks; an absent tag never matches
StartsWith(v, pre) ==
    /\ v # None
    /\ Len(v) >= Len(pre)
    /\ SubSeq(v, 1, Len(pre)) = pre

\* the -if condition of lines 459-462 on file f
FilterPasses(mode, old_norm, f) ==
    IF mode = "exif"
    THEN StartsWith(f.DateTimeOriginal, old_norm) \/ StartsWith(f.CreateDate, old_norm)
    ELSE StartsWith(f.FileModifyDate, old_norm)

\* $_ =~ s/^old/new/
SubstPrefix(v, old, new) ==
    IF StartsWith(v, old) THEN new \o SubSeq(v, Len(old) + 1, Len(v)) ELSE v

\* $_ =~ s/^\d{4}:\d{2}:\d{2} //
StripDate(v) ==
    IF /\ Len(v) >= 11
       /\ \A i \in {1, 2, 3, 4, 6, 7, 9, 10} : v[i] \in Digits
       /\ v[5] = ":" /\ v[8] = ":" /\ v[11] = " "
    THEN SubSeq(v, 12, Len(v))
    ELSE v

\* the tag the rewrite of lines 467-470 and the preview of lines 477-480 read
SourceTag(mode, f) ==
    IF mode = "exif" THEN f.DateTimeOriginal ELSE f.FileModifyDate

\* the value the assignment of lines 468/470 gives File Modified on file f;
\* None when the source tag is absent and nothing is assigned
WrittenModifyDate(mode, old_norm, new_norm, f) ==
    IF SourceTag(mode, f) = None THEN None
    ELSE SubstPrefix(SourceTag(mode, f), old_norm, new_norm)

\* the value after "->" in the preview line of lines 478/480 for file f;
\* None when the source tag is absent and no line is printed
PreviewWouldBe(mode, new_norm, f) ==
    IF SourceTag(mode, f) = None THEN None
    ELSE new_norm \o <<" ">> \o StripDate(SourceTag(mode, f))

(***************************************************************************)
(* The folder and what the exiftool child does to it.  An entry of the     *)
(* folder is a file: its extension, its tags and the Finder creation date  *)
(* (FileCreateDate).  A job can change the two filesystem dates of a file  *)
(* and nothing else, so these are what the variable folder holds.          *)
(***************************************************************************)
X_jpg  == <<"j", "p", "g">>
X_HEIC == <<"H", "E", "I", "C">>
X_mov  == <<"m", "o", "v">>

Entry(ext, f) == [ext |-> ext, tags |-> f, FileCreateDate |-> f.CreateDate]

InitialFolder ==
    << Entry(X_jpg, File(Stamp(D_2025_10_25, T_09_30_00), Stamp(D_2025_10_25, T_09_30_00),
                         Stamp(D_2025_10_25, T_18_00_00))),
       Entry(X_mov, File(Stamp(D_2025_09_01, T_09_30_00), Stamp(D_2025_10_25, T_09_30_00),
                         Stamp(D_2025_10_25, T_18_00_00))),
       Entry(X_HEIC, File(None, Stamp(D_2025_10_25, T_09_30_00),
                          Stamp(D_2025_09_01, T_18_00_00))),
       Entry(X_jpg, File(Stamp(D_2025_09_01, T_09_30_00), Stamp(D_2025_09_01, T_09_30_00),
                         Stamp(D_2025_09_01, T_18_00_00))) >>

\* the filesystem dates of a file
Dates(e) ==
    [FileModifyDate |-> e.tags.FileModifyDate, FileCreateDate |-> e.FileCreateDate]

\* file i of the folder as exiftool finds it now
FileAt(i) ==
    [InitialFolder[i] EXCEPT !.tags.FileModifyDate = folder[i].FileModifyDate,
                             !.FileCreateDate = folder[i].FileCreateDate]

\* the values of the -ext arguments of a command (lines 452-454)
ExtsOf(cmd) ==
    { cmd[i + 1].x : i \in { k \in 1..(Len(cmd) - 1) : cmd[k] = Lit("-ext") } }

\* exiftool reads every file when it is given no -ext, and otherwise the
\* files whose extension is one of those given, whatever the case
ExtSelects(cmd, ext) ==
    \/ ExtsOf(cmd) = {}
    \/ Lower(ext) \in { Lower(x) : x \in ExtsOf(cmd) }

\* the -if condition of a command (lines 459-462, 483, 492) on file f
IfPasses(cmd, f) ==
    LET i    == CHOOSE k \in 1..(Len(cmd) - 1) : cmd[k] = Lit("-if")
        cond == cmd[i + 1]
    IN FilterPasses(IF cond.k = "$FileModifyDate=~/^{x}/" THEN "modified" ELSE "exif",
                    cond.x, f)

\* the files of the folder a command works on
Processed(cmd, e) == ExtSelects(cmd, e.ext) /\ IfPasses(cmd, e.tags)

\* what a command does to one file: the assignment of line 468 or 470 sets
\* File Modified from its source tag (nothing when the file lacks the tag),
\* the assignment of line 472 copies File Modified to the creation date.
\* Whether that copy reads the value as it was or as the first assignment
\* left it is exiftool's business: copyReadsNew says which.
ExifWrite(cmd, e, copyReadsNew) ==
    LET rew    == SelectSeq(cmd, LAMBDA arg : arg.k \in RewriteTexts)
        copy   == \E i \in 1..Len(cmd) : cmd[i] = Lit(CopyText)
        mode   == IF rew # <<>> /\ rew[1].k = "-FileModifyDate<${FileModifyDate;$_=~s/^{x}/{y}/}"
                  THEN "modified" ELSE "exif"
        to     == IF rew = <<>> THEN None
                  ELSE WrittenModifyDate(mode, rew[1].x, rew[1].y, e.tags)
        newFmd == IF to = None THEN e.tags.FileModifyDate ELSE to
    IN IF ~Processed(cmd, e) THEN e
       ELSE [e EXCEPT !.tags.FileModifyDate = newFmd,
                      !.FileCreateDate =
                          IF ~copy THEN @
                          ELSE IF copyReadsNew THEN newFmd ELSE e.tags.FileModifyDate]

\* the states the child of a command may leave the folder in when it ends
\* without an error: a command without an assignment writes nothing, and
\* what the copy reads matters only when the command holds both assignments
AfterChild(cmd) ==
    LET given == SelectSeq(cmd, IsAssignArg)
    IN IF given = <<>> THEN {folder}
       ELSE { [i \in DOMAIN folder |->
                 Dates(ExifWrite(cmd, FileAt(i), copyReadsNew))] :
                copyReadsNew \in (IF Len(given) > 1 THEN BOOLEAN ELSE {FALSE}) }

(***************************************************************************)
(* run_job: one thread.  a holds the arguments on_run passed; pc is the    *)
(* place the thread is at.                                                 *)
(***************************************************************************)
ExitCodes == {0, 1}

NewJob(a) ==
    [a      |-> a,
     pc     |-> "start",
     et     |-> FALSE,      \* exiftool resolved
     assigns |-> <<>>,      \* the local assigns, once built
     cmd    |-> <<>>,       \* the command line, once assembled
     child  |-> "none",     \* the exiftool child: "none", "running", "exited"
     nout   |-> 0,          \* lines of its output forwarded so far
     has_rc |-> FALSE,      \* proc.wait() has returned
     rc     |-> 0]

\* App.ui_log
ui_log(line) ==
    /\ queue' = Append(queue, line)
    /\ put_log' = Append(put_log, line)

\* lines 439-442: enrich_path(), which("exiftool"); found says what is on PATH
Resolve(j) ==
    /\ jobs[j].pc = "start"
    /\ \E found \in BOOLEAN :
         IF found
         THEN /\ jobs' = [jobs EXCEPT ![j].et = TRUE, ![j].pc = "build"]
              /\ UNCHANGED <<queue, put_log>>
         ELSE /\ ui_log(Line(j, "ExifTool not found. Attempting to install via Homebrew...", 0))
              /\ jobs' = [jobs EXCEPT ![j].pc = "install"]
    /\ UNCHANGED <<form, msgbox, txt, ui, shown, folder, overlapped>>

\* lines 443-448: ensure_homebrew(), brew install, which("exiftool") again;
\* brew and found say how the environment answers
Install(j) ==
    /\ jobs[j].pc = "install"
    /\ \E brew \in BOOLEAN, found \in BOOLEAN :
         IF brew /\ found
         THEN /\ jobs' = [jobs EXCEPT ![j].et = TRUE, ![j].pc = "build"]
              /\ UNCHANGED <<queue, put_log>>
         ELSE /\ ui_log(Line(j, "ERROR: exiftool not available.", 0))
              /\ jobs' = [jobs EXCEPT ![j].pc = "done"]
    /\ UNCHANGED <<form, msgbox, txt, ui, shown, folder, overlapped>>

\* lines 450-484 and 492-493: assemble the command, log what follows
Build(j) ==
    /\ jobs[j].pc = "build"
    /\ jobs' = [jobs EXCEPT
                 ![j].assigns = BuildAssigns(jobs[j].a.match_mode, jobs[j].a.old_norm,
                                             jobs[j].a.new_norm, jobs[j].a.set_modified,
                                             jobs[j].a.set_created),
                 ![j].cmd = BuildCmd(jobs[j].a),
                 ![j].pc = "logcmd"]
    /\ ui_log(Line(j, IF jobs[j].a.dry_run THEN "Preview (no writes):"
                      ELSE "Running exiftool writes...", 0))
    /\ UNCHANGED <<form, msgbox, txt, ui, shown, folder, overlapped>>

\* lines 485 and 494: log the quoted command
LogCmd(j) ==
    /\ jobs[j].pc = "logcmd"
    /\ jobs' = [jobs EXCEPT ![j].pc = "popen"]
    /\ ui_log(Line(j, "cmd", 0))
    /\ UNCHANGED <<form, msgbox, txt, ui, shown, folder, overlapped>>

\* lines 486 and 495: subprocess.Popen starts the child, or raises OSError,
\* which nothing in run_job catches
Popen(j) ==
    /\ jobs[j].pc = "popen"
    /\ \E started \in BOOLEAN :
         jobs' = IF started
                 THEN [jobs EXCEPT ![j].child = "running", ![j].pc = "read"]
                 ELSE [jobs EXCEPT ![j].pc = "raised"]
    /\ UNCHANGED <<form, msgbox, txt, queue, ui, put_log, shown, folder, overlapped>>

\* ReadLine by a reader that goes on after the job has ended
ReadLine_afterEnd(j) ==
    /\ jobs[j].pc \in {"read", "done"}
    /\ jobs[j].child # "none"
    /\ jobs[j].nout < MaxOut
    /\ jobs' = [jobs EXCEPT ![j].nout = @ + 1]
    /\ ui_log(Line(j, "out", jobs[j].nout + 1))
    /\ UNCHANGED <<form, msgbox, txt, ui, shown, folder, overlapped>>

\* lines 487-488 and 496-497: forward one line of the child's output
ReadLine(j) ==
    /\ jobs[j].pc = "read"
    /\ jobs[j].nout < MaxOut
    /\ jobs' = [jobs EXCEPT ![j].nout = @ + 1]
    /\ ui_log(Line(j, "out", jobs[j].nout + 1))
    /\ UNCHANGED <<form, msgbox, txt, ui, shown, folder, overlapped>>

\* lines 489-490 and 498-499: end of output, proc.wait(), the status line.
\* By then the child has done to the folder what its command line says; a
\* child that ends with an error may have written nothing.
Wait(j) ==
    /\ jobs[j].pc = "read"
    /\ LET after == AfterChild(jobs[j].cmd)
       IN \E rc \in ExitCodes :
            /\ jobs' = [jobs EXCEPT ![j].child = "exited", ![j].has_rc = TRUE,
                                    ![j].rc = rc, ![j].pc = "done"]
            /\ ui_log(Line(j, "[exit code {rc}]", rc))
            /\ folder' \in after \cup (IF rc = 0 THEN {} ELSE {folder})
    /\ UNCHANGED <<form, msgbox, txt, ui, shown, overlapped>>

Worker(j) ==
    \/ Resolve(j)
    \/ Install(j)
    \/ Build(j)
    \/ LogCmd(j)
    \/ Popen(j)
    \/ ReadLine(j)
    \/ Wait(j)

(***************************************************************************)
(* The UI thread.                                                          *)
(***************************************************************************)
\* Validate without the check of the target date
Validate_noTargetCheck(source_dir, old_norm, new_norm, setModified) ==
    IF ~isdir(source_dir) THEN "Invalid Folder"
    ELSE IF ~Truthy(old_norm) THEN "Invalid Dates"
    ELSE ""

\* on_run, lines 402-424: the title of the error dialog shown, "" if none
Validate(source_dir, old_norm, new_norm, setModified) ==
    IF ~isdir(source_dir) THEN "Invalid Folder"
    ELSE IF ~Truthy(old_norm) THEN "Invalid Dates"
    ELSE IF setModified /\ ~Truthy(new_norm) THEN "Missing Target Date"
    ELSE ""

\* on_run, lines 392-436, as one step of the UI thread
\* no run_job thread is between its start and its end
NoJobInFlight == \A j \in 1..Len(jobs) : jobs[j].pc \in {"done", "raised"}

\* on_run, for a user who presses Run with effect at most n times
OnRunUpTo(n) ==
    /\ ui = "idle"
    /\ LET source_dir == Strip(dir_var)
           old_date   == Strip(old_var)
           new_date   == Strip(new_var)
           exts       == parse_extensions(exts_var)
           old_norm   == normalize_exif(old_date)
           new_norm   == IF new_date # <<>> THEN normalize_exif(new_date) ELSE None
           err        == Validate(source_dir, old_norm, new_norm, set_modified)
           j          == Len(jobs) + 1
       IN
       IF err # ""
       THEN /\ msgbox' = err
            /\ UNCHANGED <<txt, queue, jobs, put_log, overlapped>>
       ELSE /\ Len(jobs) < n
            /\ overlapped' = (overlapped \/ ~NoJobInFlight)
            /\ msgbox' = ""
            /\ txt' = <<>>
            /\ queue' = queue \o Header(j)
            /\ put_log' = put_log \o Header(j)
            /\ jobs' = Append(jobs, NewJob(
                         [source_dir   |-> source_dir,
                          old_norm     |-> old_norm,
                          new_norm     |-> new_norm,
                          match_mode   |-> match_mode,
                          exts         |-> exts,
                          set_modified |-> set_modified,
                          set_created  |-> set_created,
                          dry_run      |-> dry_run]))
    /\ UNCHANGED <<form, ui, shown, folder>>

OnRun == OnRunUpTo(MaxRuns)

\* drain_log_queue is entered when its timer fires (self.after)
DrainStart ==
    /\ ui = "idle"
    /\ ui' = "drain"
    /\ UNCHANGED <<form, msgbox, txt, queue, jobs, put_log, shown, folder, overlapped>>

\* DrainGet taking the newest line instead of the oldest
DrainGet_newestFirst ==
    /\ ui = "drain"
    /\ queue # <<>>
    /\ queue' = SubSeq(queue, 1, Len(queue) - 1)
    /\ txt' = Append(txt, queue[Len(queue)])
    /\ shown' = Append(shown, queue[Len(queue)])
    /\ UNCHANGED <<form, msgbox, ui, jobs, put_log, folder, overlapped>>

\* lines 217-219: get_nowait() returns a line, which is inserted at the end
DrainGet ==
    /\ ui = "drain"
    /\ queue # <<>>
    /\ queue' = Tail(queue)
    /\ txt' = Append(txt, Head(queue))
    /\ shown' = Append(shown, Head(queue))
    /\ UNCHANGED <<form, msgbox, ui, jobs, put_log, folder, overlapped>>

\* lines 220-222: get_nowait() raises Empty; the next poll is scheduled
DrainEmpty ==
    /\ ui = "drain"
    /\ queue = <<>>
    /\ ui' = "idle"
    /\ UNCHANGED <<form, msgbox, txt, queue, jobs, put_log, shown, folder, overlapped>>

\* apply_preset, lines 308-336; p is the entry chosen in the combobox
ApplyPreset(p) ==
    /\ ui = "idle"
    /\ CASE p = "All files * match by Modified * Created = Modified" ->
              /\ match_mode' = "modified"
              /\ set_created' = TRUE
              /\ set_modified' = FALSE
              /\ exts_var' = X_all
              /\ dry_run' = FALSE
         [] p = "Photos * match by EXIF * set Modified to Target * Created = Modified" ->
              /\ match_mode' = "exif"
              /\ set_modified' = TRUE
              /\ set_created' = TRUE
              /\ exts_var' = X_jpg_jpeg_heic
              /\ dry_run' = FALSE
         [] p = "Photos * match by EXIF * Created = Modified (no change to Modified)" ->
              /\ match_mode' = "exif"
              /\ set_modified' = FALSE
              /\ set_created' = TRUE
              /\ exts_var' = X_jpg_jpeg_heic
              /\ dry_run' = FALSE
         [] p = "All files * match by Modified * set Modified to Target" ->
              /\ match_mode' = "modified"
              /\ set_modified' = TRUE
              /\ set_created' = FALSE
              /\ exts_var' = X_all
              /\ dry_run' = FALSE
         [] p = "Preview only (no writes)" ->
              /\ dry_run' = TRUE
              /\ UNCHANGED <<match_mode, set_created, set_modified, exts_var>>
         [] OTHER ->
              UNCHANGED <<match_mode, set_created, set_modified, exts_var, dry_run>>
    /\ UNCHANGED <<dir_var, old_var, new_var, msgbox, txt, queue, ui, jobs,
                   put_log, shown, folder, overlapped>>

Presets ==
    { "(choose a preset)",
      "All files * match by Modified * Created = Modified",
      "Photos * match by EXIF * set Modified to Target * Created = Modified",
      "Photos * match by EXIF * Created = Modified (no change to Modified)",
      "All files * match by Modified * set Modified to Target",
      "Preview only (no writes)" }

(***************************************************************************)
(* Specifications.                                                         *)
(*                                                                         *)
(* The entries of the form hold what the user typed before the first Run;  *)
(* Init draws that from bounded sets.  Run is pressed again only when no   *)
(* job is in flight (NoJobInFlight): the code does not enforce this, it    *)
(* is the use the specifications below explore, all but SpecRuns, where    *)
(* Run is also pressed while a job is in flight.                           *)
(***************************************************************************)
Started ==
    /\ msgbox = ""
    /\ txt = <<>>
    /\ queue = <<>>
    /\ ui = "idle"
    /\ jobs = <<>>
    /\ put_log = <<>>
    /\ shown = <<>>
    /\ folder = [i \in DOMAIN InitialFolder |-> Dates(InitialFolder[i])]
    /\ overlapped = FALSE

\* no job in flight and its log all shown
Settled == NoJobInFlight /\ queue = <<>> /\ ui = "idle"

Run == NoJobInFlight /\ OnRun

Work == \E j \in 1..Len(jobs) : Worker(j)

Poll ==
    \/ DrainStart
    \/ DrainGet
    \/ DrainEmpty

Preset == Settled /\ \E p \in Presets : ApplyPreset(p)

RunSettled == Settled /\ OnRun

\* Spec: Run and the job, for every way of filling in the form
Init ==
    /\ dir_var \in {Dir_photos, Dir_missing}
    /\ old_var \in {D_2025_10_25, D_2025_10_25d, D_2025_1_5, D_2025_13_40}
    /\ new_var \in {<<>>, D_2025_11_01, D_2025_1_5, D_2025_13_40}
    /\ dry_run \in BOOLEAN
    /\ match_mode \in {"exif", "modified"}
    /\ set_created \in BOOLEAN
    /\ set_modified \in BOOLEAN
    /\ exts_var \in {X_all, X_jpg_heic, X_dot}
    /\ Started

Next ==
    \/ Run
    \/ Work

Spec == Init /\ [][Next]_vars

\* SpecUI: Run, the job, the presets and the log poll, for a user who
\* waits for the log to settle before touching the form again.  The poll is
\* followed from the end of the job on: what the settled log holds does not
\* depend on when the timer fired while the job ran (FairSpec explores that).
InitUI ==
    /\ dir_var \in {Dir_photos, Dir_missing}
    /\ old_var \in {D_2025_10_25, D_2025_13_40}
    /\ new_var \in {<<>>, D_2025_13_40}
    /\ dry_run = FALSE
    /\ match_mode = "modified"
    /\ set_created = TRUE
    /\ set_modified = FALSE
    /\ exts_var = X_jpg_jpeg_heic
    /\ Started

PollAfterJob == NoJobInFlight /\ Poll

NextUI ==
    \/ RunSettled
    \/ Work
    \/ PollAfterJob
    \/ Preset

SpecUI == InitUI /\ [][NextUI]_vars

\* SpecNorm: Run and the job for many texts of the Match Date entry
NormYears  == { <<"2", "0", "2", "5">>, <<"2", "0", "2", "4">>,
                <<"0", "0", "0", "0">>, <<"2", "0", "2">> }
NormMonths == { <<"1", "0">>, <<"0", "2">>, <<"2">>, <<"1", "3">>, <<"0", "0">> }
NormDays   == { <<"2", "5">>, <<"2", "9">>, <<"3", "0">>, <<"3", "1">>, <<"5">>,
                <<" ", "5">>, <<"0", "0">>, <<"2", "5", "1">> }
NormSeps   == {":", "-"}

NormInputs ==
    { y \o <<s1>> \o m \o <<s2>> \o d :
        y \in NormYears, s1 \in NormSeps, m \in NormMonths, s2 \in NormSeps,
        d \in NormDays } \cup {<<>>}

InitNorm ==
    /\ dir_var = Dir_photos
    /\ old_var \in NormInputs
    /\ new_var = <<>>
    /\ dry_run = FALSE
    /\ match_mode = "modified"
    /\ set_created = TRUE
    /\ set_modified = FALSE
    /\ exts_var = X_jpg_jpeg_heic
    /\ Started

SpecNorm == InitNorm /\ [][Next]_vars

\* FairSpec: the form as App.__init__ leaves it (dry run ticked or not), the
\* job and the log poll; the poll re-arms its timer every time it runs
\* (self.after), so it keeps being taken
InitChan ==
    /\ dir_var = Dir_photos
    /\ old_var = D_2025_10_25
    /\ new_var = D_2025_10_25
    /\ dry_run \in BOOLEAN
    /\ match_mode = "modified"
    /\ set_created = TRUE
    /\ set_modified = FALSE
    /\ exts_var = X_jpg_jpeg_heic
    /\ Started

NextChan ==
    \/ Run
    \/ Work
    \/ Poll

FairSpec ==
    /\ InitChan
    /\ [][NextChan]_vars
    /\ WF_vars(Poll)

\* SpecRuns: the form as App.__init__ leaves it with Dry Run ticked, and a
\* user who presses Run once more than the users of the other
\* specifications and need not wait for the job in flight to end.  A job
\* spends its time waiting for its exiftool child, so that is when a Run
\* meets it (ChildRunning); the Run that met a job in flight is the user's
\* last.  Every use in which each Run finds no job in flight is explored.
InitRuns ==
    /\ InitChan
    /\ dry_run

ChildRunning == \A j \in 1..Len(jobs) : jobs[j].pc \in {"read", "done", "raised"}

RunAnyTime ==
    /\ ~overlapped
    /\ ChildRunning
    /\ OnRunUpTo(MaxRuns + 1)

NextRuns ==
    \/ RunAnyTime
    \/ Work

SpecRuns == InitRuns /\ [][NextRuns]_vars

(***************************************************************************)
(* Properties.                                                             *)
(***************************************************************************)
JobIds == 1..Len(jobs)

\* the job has assembled its command line
Built(j) == jobs[j].cmd # <<>>

Count(seq, x) == Cardinality({i \in 1..Len(seq) : seq[i] = x})

ProjectionTexts ==
    { "$FileName | $DateTimeOriginal -> {x} ${DateTimeOriginal;$_=~s/^\\d{4}:\\d{2}:\\d{2} //}",
      "$FileName | $FileModifyDate -> {x} ${FileModifyDate;$_=~s/^\\d{4}:\\d{2}:\\d{2} //}",
      "$FileName | Created will become Modified | $FileCreateDate -> $FileModifyDate" }

\* the argument is a projection expression
IsProjectionArg(arg) == arg.k \in ProjectionTexts

\* C1: every assembled exiftool command holds -overwrite_original exactly
\* when Dry Run is off, whatever the match mode, the extensions and the two
\* Set flags are.
C1_OverwriteIffWrite ==
    \A j \in JobIds :
        Built(j) =>
            ((Lit("-overwrite_original") \in Range(jobs[j].cmd)) <=> ~dry_run)

C1_Witness ==
    \E j \in JobIds :
        /\ Built(j)
        /\ ~dry_run
        /\ set_modified
        /\ match_mode = "exif"
        /\ ExtsTruthy(jobs[j].a.exts)
        /\ Lit("-overwrite_original") \in Range(jobs[j].cmd)

\* C2: a dry-run command holds exactly one -p with one projection
\* expression and no field assignment, whatever the Set flags are; a write
\* command holds the assignments built and no -p and no projection.
C2_PreviewOrPlan ==
    \A j \in JobIds :
        Built(j) =>
            LET cmd == jobs[j].cmd IN
            IF dry_run
            THEN /\ Count(cmd, Lit("-p")) = 1
                 /\ Cardinality({i \in 1..Len(cmd) : IsProjectionArg(cmd[i])}) = 1
                 /\ \A i \in 1..Len(cmd) : ~IsAssignArg(cmd[i])
            ELSE /\ Count(cmd, Lit("-p")) = 0
                 /\ \A i \in 1..Len(cmd) : ~IsProjectionArg(cmd[i])
                 /\ SelectSeq(cmd, IsAssignArg) = jobs[j].assigns

C2_Witness ==
    \E j \in JobIds :
        /\ Built(j)
        /\ dry_run
        /\ set_modified
        /\ set_created
        /\ Count(jobs[j].cmd, Lit("-p")) = 1

\* C7: the assignments built depend on the flags alone: the rewrite of File
\* Modified (match date replaced by target date) is there exactly when Set
\* Modified is on with a target date, the copy Modified -> Created exactly
\* when Set Created is on, the rewrite comes first, nothing else is there,
\* and a write command holds them in that order.
C7_PlanByFlags ==
    \A j \in JobIds :
        Built(j) =>
            LET plan       == jobs[j].assigns
                hasRewrite == \E i \in 1..Len(plan) : plan[i].k \in RewriteTexts
                hasCopy    == \E i \in 1..Len(plan) : plan[i] = Lit(CopyText)
            IN
            /\ hasRewrite <=> (set_modified /\ Truthy(jobs[j].a.new_norm))
            /\ hasCopy <=> set_created
            /\ Len(plan) = (IF hasRewrite THEN 1 ELSE 0) + (IF hasCopy THEN 1 ELSE 0)
            /\ hasRewrite =>
                   /\ plan[1].k \in RewriteTexts
                   /\ plan[1].x = jobs[j].a.old_norm
                   /\ plan[1].y = jobs[j].a.new_norm
            /\ (~set_modified /\ ~set_created) => plan = <<>>
            /\ ~dry_run => SelectSeq(jobs[j].cmd, IsAssignArg) = plan

C7_Witness ==
    \E j \in JobIds :
        /\ Built(j)
        /\ ~dry_run
        /\ set_modified
        /\ set_created
        /\ Len(jobs[j].assigns) = 2
        /\ Len(SelectSeq(jobs[j].cmd, IsAssignArg)) = 2

\* the Target Date entry is empty or does not normalize
TargetAbsent ==
    LET new_date == Strip(new_var)
    IN new_date = <<>> \/ normalize_exif(new_date) = None

\* C3 as stated: with Set Modified on and the target date absent, Run shows
\* Missing Target Date and nothing else happens: no thread, no line put, the
\* log not cleared.
C3_MissingTargetFirst ==
    [][ (set_modified /\ TargetAbsent /\ OnRun) =>
            /\ msgbox' = "Missing Target Date"
            /\ UNCHANGED <<jobs, queue, put_log, txt, shown>> ]_vars

\* C3 amended: with Set Modified on and the target date absent, Run starts
\* no thread, puts no line and leaves the log alone, in dry run as in write
\* mode; the dialog it shows is Missing Target Date when the folder exists
\* and the match date normalizes, and otherwise the dialog of the check that
\* comes first (Invalid Folder, then Invalid Dates).
C3_RejectsWithoutJob ==
    [][ (set_modified /\ TargetAbsent /\ OnRun) =>
            /\ UNCHANGED <<jobs, queue, put_log, txt, shown>>
            /\ msgbox' =
                 IF ~isdir(Strip(dir_var)) THEN "Invalid Folder"
                 ELSE IF normalize_exif(Strip(old_var)) = None THEN "Invalid Dates"
                 ELSE "Missing Target Date" ]_vars

C3_Witness ==
    /\ msgbox = "Missing Target Date"
    /\ set_modified
    /\ dry_run
    /\ TargetAbsent
    /\ Strip(new_var) # <<>>
    /\ txt # <<>>
    /\ jobs # <<>>

\* a text of exactly the shape YYYY:MM:DD or YYYY-MM-DD naming a calendar date
IsDateText(s) ==
    /\ Len(s) = 10
    /\ \A i \in {1, 2, 3, 4, 6, 7, 9, 10} : s[i] \in Digits
    /\ s[5] \in {":", "-"}
    /\ s[8] = s[5]
    /\ LET y == IntOf(SubSeq(s, 1, 4), 0)
           m == IntOf(SubSeq(s, 6, 7), 0)
           d == IntOf(SubSeq(s, 9, 10), 0)
       IN y >= 1 /\ m \in 1..12 /\ d >= 1 /\ d <= DaysInMonth(y, m)

IsCanonicalDate(s) == IsDateText(s) /\ s[5] = ":"

\* the same date with colons
WithColons(s) == [i \in 1..Len(s) |-> IF s[i] = "-" THEN ":" ELSE s[i]]

\* C4 as stated: when the match date, or a non-empty target date, is
\* malformed or impossible, Run starts no job, and the dialog it shows for
\* an existing folder is the invalid-date one.
C4_InvalidDateStopsRun ==
    LET old_date == Strip(old_var)
        new_date == Strip(new_var)
    IN (~IsDateText(old_date) \/ (new_date # <<>> /\ ~IsDateText(new_date))) =>
           /\ jobs = <<>>
           /\ (isdir(Strip(dir_var)) /\ msgbox # "") => msgbox = "Invalid Dates"

\* C5 as stated: normalize_exif succeeds only for a text of exactly the shape
\* YYYY:MM:DD or YYYY-MM-DD naming a calendar date, and then gives that date
\* as YYYY:MM:DD, the same for both shapes.  (The match date a job was
\* started with is what normalize_exif returned for the Match Date entry.)
C5_NormalizeCanonical ==
    \A j \in JobIds :
        /\ IsDateText(Strip(old_var))
        /\ IsCanonicalDate(jobs[j].a.old_norm)
        /\ jobs[j].a.old_norm = WithColons(Strip(old_var))

\* the lines of put_log that thread j logged itself
OwnLines(j) ==
    SelectSeq(put_log,
              LAMBDA l : l.job = j /\ l.kind \notin {Header(j)[i].kind : i \in 1..8})

\* C6 as stated: a job that ends with exiftool unresolved has logged exactly
\* one line for the failure, started no child, and has a non-zero exit code.
C6_ToolUnavailable ==
    \A j \in JobIds :
        (jobs[j].pc = "done" /\ ~jobs[j].et) =>
            /\ Count(OwnLines(j), Line(j, "ERROR: exiftool not available.", 0)) = 1
            /\ jobs[j].child = "none"
            /\ jobs[j].has_rc
            /\ jobs[j].rc # 0

\* C8 as stated: for a dry run (with a match date in canonical form), the
\* value the preview shows after "->" for a file that passes the filter is
\* the value the write would give File Modified on that file, and the
\* preview announces a change of a field only if the assignments built for
\* the same flags assign that field.
C8_PreviewMatchesWrite ==
    \A j \in JobIds :
        (Built(j) /\ jobs[j].a.dry_run /\ IsCanonicalDate(jobs[j].a.old_norm)) =>
            LET a    == jobs[j].a
                proj == CHOOSE x \in Range(jobs[j].cmd) : IsProjectionArg(x)
                plan == jobs[j].assigns
            IN
            /\ (a.set_modified /\ Truthy(a.new_norm)) =>
                   \A f \in Files :
                       FilterPasses(a.match_mode, a.old_norm, f) =>
                           PreviewWouldBe(a.match_mode, a.new_norm, f)
                               = WrittenModifyDate(a.match_mode, a.old_norm, a.new_norm, f)
            /\ (proj.k = "$FileName | Created will become Modified | $FileCreateDate -> $FileModifyDate")
                   => \E i \in 1..Len(plan) : plan[i] = Lit(CopyText)
            /\ (proj.k # "$FileName | Created will become Modified | $FileCreateDate -> $FileModifyDate")
                   => \E i \in 1..Len(plan) : plan[i].k \in RewriteTexts

\* C9: whatever the interleaving of threads putting lines and the UI thread
\* polling, the lines inserted into the log followed by the lines still
\* queued are the lines put, in the order put (none lost, doubled or
\* reordered), the visible log is the lines inserted since it was last
\* cleared, and every line put is inserted in the end.  The last part is
\* stated on the queue: a line that is never inserted stays queued for ever
\* behind lines of which only finitely many are taken, so it is excluded
\* exactly when the queue is empty again and again or a line is taken again
\* and again.
C9_LogChannel ==
    /\ [](shown \o queue = put_log)
    /\ [](\E k \in 0..Len(shown) : txt = SubSeq(shown, k + 1, Len(shown)))
    /\ ([]<>(queue = <<>>) \/ []<><<DrainGet>>_vars)

C9_Witness ==
    /\ ui = "drain"
    /\ \E j \in JobIds : jobs[j].pc = "read" /\ jobs[j].nout >= 1
    /\ Len(shown) > 8
    /\ Len(queue) >= 2

\* C10 as stated: a job that has ended has logged, as its last line, the
\* status line with the exit code.
C10_EndsWithStatus ==
    \A j \in JobIds :
        jobs[j].pc \in {"done", "raised"} =>
            /\ jobs[j].has_rc
            /\ OwnLines(j) # <<>>
            /\ OwnLines(j)[Len(OwnLines(j))] = Line(j, "[exit code {rc}]", jobs[j].rc)

\* C11 as stated: when a write job with Set Modified on and a target date
\* ends well, every file the job worked on (one that passed the filter) has
\* as File Modified the target date followed by the time of day File
\* Modified had before; in EXIF mode too, and for a file that passed the
\* filter through CreateDate only.
C11_ModifiedDateRewritten ==
    [][ \A j \in JobIds :
          LET a == jobs[j].a
          IN ( /\ jobs[j].pc = "read" /\ jobs'[j].pc = "done" /\ jobs'[j].rc = 0
               /\ ~a.dry_run /\ a.set_modified /\ Truthy(a.new_norm)
               /\ IsCanonicalDate(a.old_norm) /\ IsCanonicalDate(a.new_norm) )
             => \A i \in DOMAIN folder :
                   ( /\ ExtSelects(jobs[j].cmd, FileAt(i).ext)
                     /\ FilterPasses(a.match_mode, a.old_norm, FileAt(i).tags) )
                   => folder'[i].FileModifyDate
                          = a.new_norm \o SubSeq(folder[i].FileModifyDate, 11, 19)
      ]_vars

\* C12 as stated: an assembled command is without -ext only when the
\* Extensions text is "*" or empty; for any other text parse_extensions
\* gave a non-empty list of lowercase tokens without a dot, and the command
\* holds one -ext per token, in order.
C12_ExtFilterUnlessAll ==
    \A j \in JobIds :
        Built(j) =>
            LET raw  == Strip(exts_var)
                all  == raw = <<>> \/ raw = <<"*">>
                exts == jobs[j].a.exts
                cmd  == jobs[j].cmd
            IN /\ (Count(cmd, Lit("-ext")) = 0) <=> all
               /\ ~all =>
                    /\ exts # NoneList
                    /\ exts # <<>>
                    /\ \A k \in 1..Len(exts) :
                          /\ exts[k] # <<>>
                          /\ "." \notin Range(exts[k])
                          /\ exts[k] = Lower(exts[k])
                    /\ Count(cmd, Lit("-ext")) = Len(exts)
                    /\ SubSeq(cmd, 4, 3 + 2 * Len(exts)) = ExtArgs(exts)

\* the run_job threads between their start and their end
Active == {j \in JobIds : jobs[j].pc \notin {"done", "raised"}}

\* the lines put on the queue are grouped by job, in the order of the runs:
\* no line of a run comes after a line of a later run
LinesByRun ==
    \A n \in 1..(Len(put_log) - 1) : put_log[n].job <= put_log[n + 1].job

\* C13 as stated: whatever Run requests were made, at most one run_job
\* thread is active, and the lines of two jobs are not interleaved: the
\* header of a run is never followed by a line of an earlier run.
C13_OneJobAtATime ==
    /\ Cardinality(Active) <= 1
    /\ LinesByRun

\* C13 amended: on_run does not look for a job in flight; as long as every
\* Run request was made when no job was in flight, at most one run_job
\* thread is active and the lines of two jobs are not interleaved.
C13_OneJobWhenSerialized ==
    ~overlapped => (Cardinality(Active) <= 1 /\ LinesByRun)

C13_Witness ==
    /\ ~overlapped
    /\ Len(jobs) = 2
    /\ jobs[1].pc = "done"
    /\ jobs[1].nout >= 1
    /\ jobs[2].pc = "read"
    /\ jobs[2].nout >= 1

=============================================================================
